---- MODULE Spec2Model ----
(***************************************************************************)
(* Model of the two colorhymn viewer programs:                             *)
(*   viewer/colorhymn_rich.py    the static renderer (Rich or raw ANSI)    *)
(*   viewer/colorhymn_viewer.py  the interactive Textual viewer            *)
(* Both run `mix colorize <file>` as a subprocess, parse the JSON object   *)
(* found in its standard output and render it.                             *)
(*                                                                         *)
(* Texts are TLA+ strings; a colour spec "#RRGGBB" is a sequence of seven  *)
(* one-character strings so that the hexadecimal decoding of render_ansi   *)
(* is computed digit by digit.  The box-drawing characters of the header   *)
(* are written "===" and "|".                                              *)
(***************************************************************************)
EXTENDS Integers, Sequences, FiniteSets, TLC

(* ---------------------------------------------------------------- bounds *)
MaxLines == 4          \* longest "lines" array of a response
MaxViewport == 2       \* tallest log container (rows)
MaxDuration == 31      \* longest run of the classifier subprocess (seconds)
MaxNotes == 2          \* notifications kept by the viewer

(* ------------------------------------------------------------- constants *)
\* subprocess.run called without a deadline the classifier can reach
NoTimeout == MaxDuration + 1

\* subprocess.run(..., timeout=30)
Timeout == 30

None == [kind |-> "None"]

Max(a, b) == IF a >= b THEN a ELSE b
Min(a, b) == IF a <= b THEN a ELSE b

(* ------------------------------------------------------ input data model *)
Red == <<"#", "F", "F", "0", "0", "0", "0">>
Teal == <<"#", "0", "0", "8", "0", "7", "f">>

\* a token is [token_type, value, color]
TokA == <<"word", "GET ", Red>>
TokB == <<"path", "/x", Teal>>

TokenLines == {<<>>, <<TokA, TokB>>}

RECURSIVE SeqsUpTo(_, _)
SeqsUpTo(S, n) ==
    IF n = 0 THEN {<<>>}
    ELSE LET shorter == SeqsUpTo(S, n - 1)
         IN  shorter \cup {Append(s, x) : s \in {t \in shorter : Len(t) = n - 1}, x \in S}

LinesArrays == SeqsUpTo(TokenLines, MaxLines)

SemanticNames == {"cool", "neutral", "elevated", "uneasy", "troubled", "warm", "critical"}

\* (temperature, mood) pairs of the responses explored
MetaPairs == {<<"critical", "cool">>, <<"cool", "bogus">>,
              <<"bogus", "warm">>, <<"neutral", "neutral">>}

Metadatas(n) ==
    {[filename |-> "app.log", line_count |-> c, temperature |-> p[1], mood |-> p[2]] :
        c \in {n, n + 2}, p \in MetaPairs}

NoMeta == [filename |-> "", line_count |-> 0, temperature |-> "", mood |-> ""]

\* JSON objects: a dict with or without the keys "metadata" and "lines"
Documents ==
    UNION {{[hasMeta |-> TRUE, metadata |-> m, hasLines |-> TRUE, lines |-> ls] :
              m \in Metadatas(Len(ls))} : ls \in LinesArrays}

SampleMeta == [filename |-> "app.log", line_count |-> 1, temperature |-> "critical",
               mood |-> "cool"]

Incomplete ==
    { [hasMeta |-> FALSE, metadata |-> NoMeta, hasLines |-> FALSE, lines |-> <<>>],
      [hasMeta |-> FALSE, metadata |-> NoMeta, hasLines |-> TRUE,
       lines |-> <<<<TokA, TokB>>>>],
      [hasMeta |-> TRUE, metadata |-> SampleMeta, hasLines |-> FALSE, lines |-> <<>>] }

SampleDoc == [hasMeta |-> TRUE, metadata |-> SampleMeta, hasLines |-> TRUE,
              lines |-> <<<<TokA, TokB>>>>]

\* standard output is a sequence of segments: text without a '{', the text of
\* one JSON object, or text that begins with '{' and is not JSON
TextSeg == [kind |-> "text", value |-> None]
JunkSeg == [kind |-> "junk", value |-> None]
JsonSeg(v) == [kind |-> "json", value |-> v]

Stdouts ==
    {<<>>, <<TextSeg>>, <<JunkSeg>>, <<TextSeg, JunkSeg>>, <<JsonSeg(SampleDoc), TextSeg>>}
    \cup {<<JsonSeg(v)>> : v \in Documents \cup Incomplete}
    \cup {<<TextSeg, JsonSeg(v)>> : v \in Documents \cup Incomplete}

SmallStdouts ==
    {<<>>, <<TextSeg>>, <<JunkSeg>>, <<JsonSeg(SampleDoc)>>, <<TextSeg, JsonSeg(SampleDoc)>>}

\* what subprocess.run returns: CompletedProcess(returncode, stdout, stderr)
Results ==
    {[returncode |-> 0, stdout |-> s, stderr |-> ""] : s \in Stdouts}
    \cup {[returncode |-> rc, stdout |-> s, stderr |-> "boom"] :
            rc \in {0, 1}, s \in SmallStdouts}

NoResult == [returncode |-> 0, stdout |-> <<>>, stderr |-> ""]

\* how long the classifier would run if left alone, in seconds
Durations == {1} \cup ((MaxDuration - 2) .. MaxDuration)

(* ------------------------------------------------------- text formatting *)
Digit == <<"0", "1", "2", "3", "4", "5", "6", "7", "8", "9">>

\* str(n) for n >= 0
RECURSIVE Dec(_)
Dec(n) == IF n < 10 THEN Digit[n + 1] ELSE Dec(n \div 10) \o Digit[(n % 10) + 1]

\* the format spec "{:Wd}": right-align, pad with spaces to at least W characters
RECURSIVE PadLeft(_, _)
PadLeft(s, w) == IF Len(s) >= w THEN s ELSE PadLeft(" " \o s, w)

\* the line number formatted four wide
Fmt4d(i) == PadLeft(Dec(i), 4)

\* f"{i:5d}"
Fmt5d(i) == PadLeft(Dec(i), 5)

HexLower == <<"0", "1", "2", "3", "4", "5", "6", "7", "8", "9", "a", "b", "c", "d", "e", "f">>
HexUpper == <<"0", "1", "2", "3", "4", "5", "6", "7", "8", "9", "A", "B", "C", "D", "E", "F">>

HexDigitValue(c) == CHOOSE v \in 0 .. 15 : c = HexLower[v + 1] \/ c = HexUpper[v + 1]

\* int(color[a:b], 16) for a two-character slice, given 1-based positions
HexByte(color, first) ==
    16 * HexDigitValue(color[first]) + HexDigitValue(color[first + 1])

(* ------------------------------------------------------------ styled text *)
DefaultColor == [kind |-> "default", name |-> "", spec |-> <<>>]
Named(n) == [kind |-> "named", name |-> n, spec |-> <<>>]
Hex(c) == [kind |-> "hex", name |-> "", spec |-> c]

\* one Text.append(text, style=...): a run of text with an attribute and a colour
Span(text, attr, color) == [text |-> text, attr |-> attr, color |-> color]

\* pieces of a raw ANSI string: an escape sequence ESC[...m or literal text
Esc(params) == [esc |-> TRUE, sgr |-> params, txt |-> ""]
Txt(s) == [esc |-> FALSE, sgr |-> <<>>, txt |-> s]

(* ----------------------------------------------------------- ColorResolver *)
\* the dict of render_rich / render_log with its .get(name, "white") fallback
temp_colors(name) ==
    CASE name = "cool" -> "cyan"
      [] name = "neutral" -> "white"
      [] name = "elevated" -> "yellow"
      [] name = "uneasy" -> "yellow"
      [] name = "troubled" -> "orange1"
      [] name = "warm" -> "orange1"
      [] name = "critical" -> "red"
      [] OTHER -> "white"

(* --------------------------------------------------------- ClassifierClient *)
\* str.find('{'): 1-based position of the first segment holding a '{', 0 for -1
RECURSIVE FindFrom(_, _)
FindFrom(stdout, i) ==
    IF i > Len(stdout) THEN 0
    ELSE IF stdout[i].kind # "text" THEN i
    ELSE FindFrom(stdout, i + 1)

find_brace(stdout) == FindFrom(stdout, 1)

Raised(exc, msg) == [ok |-> FALSE, value |-> None, exc |-> exc, msg |-> msg]
Returned(v) == [ok |-> TRUE, value |-> v, exc |-> "", msg |-> <<>>]

\* json.loads(text): the text must be exactly one JSON value
json_loads(text) ==
    IF Len(text) = 1 /\ text[1].kind = "json" THEN Returned(text[1].value)
    ELSE IF text[1].kind = "json" THEN Raised("JSONDecodeError", <<"Extra data">>)
    ELSE Raised("JSONDecodeError", <<"Expecting property name enclosed in double quotes">>)

\* colorize_file after subprocess.run has returned `result`
colorize_file(result) ==
    LET json_start == find_brace(result.stdout)
    IN  IF json_start = 0
        THEN Raised("ValueError", <<"No JSON output: ", result.stderr>>)
        ELSE json_loads(SubSeq(result.stdout, json_start, Len(result.stdout)))

(* ----------------------------------------------------------- StaticRenderer *)
\* what a renderer did: the lines it wrote, and the exception that ended it
Rendering(out, exc, msg) == [out |-> out, exc |-> exc, msg |-> msg]

\* the styled header of render_rich
rich_header(meta) ==
    LET temp_style == temp_colors(meta.temperature)
        mood_style == temp_style
    IN  << Span("=== " \o meta.filename \o " ", "bold", DefaultColor),
           Span("| " \o Dec(meta.line_count) \o " lines ", "dim", DefaultColor),
           Span("| temp: ", "none", DefaultColor),
           Span(meta.temperature, "none", Named(temp_style)),
           Span(" | mood: ", "none", DefaultColor),
           Span(meta.mood, "none", Named(mood_style)),
           Span(" ===", "none", DefaultColor) >>

\* the Text of one line: the number prefix, then one span per token
rich_row(i, line_tokens) ==
    <<Span(Fmt5d(i) \o " ", "dim", DefaultColor)>>
    \o [k \in 1 .. Len(line_tokens) |->
            Span(line_tokens[k][2], "none", Hex(line_tokens[k][3]))]

\* for i, line_tokens in enumerate(data["lines"], 1): console.print(text)
rich_rows(lines) == [i \in 1 .. Len(lines) |-> rich_row(i, lines[i])]

render_rich(data) ==
    IF ~data.hasMeta THEN Rendering(<<>>, "KeyError", <<"'metadata'">>)
    ELSE LET head == <<rich_header(data.metadata), <<>>>>
         IN  IF ~data.hasLines THEN Rendering(head, "KeyError", <<"'lines'">>)
             ELSE Rendering(head \o rich_rows(data.lines), "", <<>>)

\* the single f-string render_ansi prints as header
ansi_header(meta) ==
    << Txt("=== " \o meta.filename \o " | " \o Dec(meta.line_count) \o " lines | temp: "
           \o meta.temperature \o " | mood: " \o meta.mood \o " ===") >>

\* ESC[38;2;R;G;Bm value ESC[0m
ansi_token(token) ==
    << Esc(<<38, 2, HexByte(token[3], 2), HexByte(token[3], 4), HexByte(token[3], 6)>>),
       Txt(token[2]),
       Esc(<<0>>) >>

RECURSIVE ansi_tokens(_)
ansi_tokens(line_tokens) ==
    IF line_tokens = <<>> THEN <<>>
    ELSE ansi_token(Head(line_tokens)) \o ansi_tokens(Tail(line_tokens))

\* "".join(parts) of one line
ansi_row(i, line_tokens) ==
    <<Esc(<<2>>), Txt(Fmt5d(i)), Esc(<<0>>), Txt(" ")>> \o ansi_tokens(line_tokens)

\* for i, line_tokens in enumerate(data["lines"], 1): print("".join(parts))
ansi_rows(lines) == [i \in 1 .. Len(lines) |-> ansi_row(i, lines[i])]

render_ansi(data) ==
    IF ~data.hasMeta THEN Rendering(<<>>, "KeyError", <<"'metadata'">>)
    ELSE LET head == <<ansi_header(data.metadata), <<>>>>
         IN  IF ~data.hasLines THEN Rendering(head, "KeyError", <<"'lines'">>)
             ELSE Rendering(head \o ansi_rows(data.lines), "", <<>>)

(* -------------------------------------------------------- InteractiveViewer *)
\* the Text render_log puts in the info bar
info_text(meta) ==
    LET temp_color == temp_colors(meta.temperature)
        mood_color == temp_colors(meta.mood)
    IN  << Span(" " \o meta.filename \o " ", "bold", DefaultColor),
           Span("| " \o Dec(meta.line_count) \o " lines ", "dim", DefaultColor),
           Span("| temp: ", "dim", DefaultColor),
           Span(meta.temperature, "none", Named(temp_color)),
           Span(" | mood: ", "dim", DefaultColor),
           Span(meta.mood, "none", Named(mood_color)) >>

\* the Static mounted for one line
log_row(i, line_tokens) ==
    IF line_tokens # <<>>
    THEN <<Span(Fmt5d(i) \o " ", "dim", DefaultColor)>>
         \o [k \in 1 .. Len(line_tokens) |->
                Span(line_tokens[k][2], "none", Hex(line_tokens[k][3]))]
    ELSE <<Span(Fmt5d(i) \o " ", "dim", DefaultColor)>>

\* render_log mounting nothing for a line without tokens
RECURSIVE SkipEmptyFrom(_, _)
SkipEmptyFrom(lines, i) ==
    IF i > Len(lines) THEN <<>>
    ELSE (IF lines[i] = <<>> THEN <<>> ELSE <<log_row(i, lines[i])>>)
         \o SkipEmptyFrom(lines, i + 1)

log_rows_skip_empty(lines) == SkipEmptyFrom(lines, 1)

\* for i, line_tokens in enumerate(self.data["lines"], 1): container.mount(...)
log_rows(lines) == [i \in 1 .. Len(lines) |-> log_row(i, lines[i])]

\* render_log: [bar, rows] it leaves on screen, and the exception that ended it;
\* `not self.data` is true of the empty dict
LogView(bar, rows, exc, msg) == [bar |-> bar, rows |-> rows, exc |-> exc, msg |-> msg]

render_log(data) ==
    IF ~data.hasMeta /\ ~data.hasLines THEN LogView(<<>>, <<>>, "", <<>>)
    ELSE IF ~data.hasMeta THEN LogView(<<>>, <<>>, "KeyError", <<"'metadata'">>)
    ELSE IF ~data.hasLines
         THEN LogView(info_text(data.metadata), <<>>, "KeyError", <<"'lines'">>)
    ELSE LogView(info_text(data.metadata), log_rows(data.lines), "", <<>>)

(* ------------------------------------------------------------------- state *)
VARIABLES
    prog,             \* which script runs: "rich" or "viewer"
    pc,               \* "import", "defs", "main", "wait", "ready", "done", "crashed"
    RICH_AVAILABLE,   \* module global of colorhymn_rich.py: "unset", "True", "False"
    child,            \* the classifier subprocess: its state and how long it runs
    elapsed,          \* seconds subprocess.run has waited
    result,           \* the CompletedProcess of subprocess.run
    data,             \* the parsed response (self.data / data), None before
    out,              \* lines the static renderer wrote to standard output
    err,              \* messages written to the error stream
    exitCode,         \* exit status of the process, -1 while it runs
    info_bar,         \* content of the #info-bar Static
    rows,             \* the Statics mounted in #log-container, in order
    scroll_y,         \* scroll offset of #log-container
    viewport_height,  \* height of #log-container in rows
    notifications     \* what self.notify has shown

vars == <<prog, pc, RICH_AVAILABLE, child, elapsed, result, data, out, err, exitCode,
          info_bar, rows, scroll_y, viewport_height, notifications>>

viewerVars == <<info_bar, rows, scroll_y, viewport_height, notifications>>

NoData == [hasMeta |-> FALSE, metadata |-> NoMeta, hasLines |-> FALSE, lines |-> <<>>,
           none |-> TRUE]

NoChild == [state |-> "none", duration |-> 0]

Init ==
    /\ prog \in {"rich", "viewer"}
    /\ pc = IF prog = "rich" THEN "import" ELSE "main"
    /\ RICH_AVAILABLE = "unset"
    /\ child = NoChild
    /\ elapsed = 0
    /\ result = NoResult
    /\ data = NoData
    /\ out = <<>>
    /\ err = <<>>
    /\ exitCode = -1
    /\ info_bar = <<>>
    /\ rows = <<>>
    /\ scroll_y = 0
    /\ viewport_height = 1
    /\ notifications = <<>>

(* --------------------------------------------------- colorhymn_rich.py steps *)
\* try: from rich.console import Console ... except ImportError / else
ImportRich ==
    /\ prog = "rich" /\ pc = "import"
    /\ \E installed \in BOOLEAN :
        IF installed
        THEN RICH_AVAILABLE' = "True" /\ err' = err
        ELSE /\ RICH_AVAILABLE' = "False"
             /\ err' = Append(err, <<"Rich not installed. Using raw ANSI output.">>)
    /\ pc' = "defs"
    /\ UNCHANGED <<prog, child, elapsed, result, data, out, exitCode, viewerVars>>

\* the def statements of the module.  `def render_rich(data, console: Console)`
\* evaluates the annotation Console when the def runs, unless the interpreter
\* defers annotations (Python 3.14 and later); the name is unbound when the
\* import failed
DefineFunctions ==
    /\ prog = "rich" /\ pc = "defs"
    /\ \E deferred \in BOOLEAN :
        IF RICH_AVAILABLE = "False" /\ ~deferred
        THEN /\ err' = Append(err, <<"NameError: name 'Console' is not defined">>)
             /\ exitCode' = 1
             /\ pc' = "crashed"
        ELSE /\ pc' = "main"
             /\ UNCHANGED <<err, exitCode>>
    /\ UNCHANGED <<prog, RICH_AVAILABLE, child, elapsed, result, data, out, viewerVars>>

Usage(script) == <<"Usage: ", script, " <logfile>">>

ErrorLine(msg) == <<"Error: ">> \o msg

\* main up to the call of subprocess.run inside colorize_file
rich_main ==
    /\ prog = "rich" /\ pc = "main"
    /\ \E argc \in {1, 2}, mixInstalled \in BOOLEAN, d \in Durations :
        IF argc < 2
        THEN /\ err' = err \o <<Usage("colorhymn_rich.py"),
                                <<"       cat logfile | colorhymn_rich.py --stdin">>>>
             /\ exitCode' = 1 /\ pc' = "done" /\ child' = child
        ELSE IF ~mixInstalled
        THEN /\ err' = Append(err, ErrorLine(<<"[Errno 2] No such file or directory: 'mix'">>))
             /\ exitCode' = 1 /\ pc' = "done" /\ child' = child
        ELSE /\ child' = [state |-> "running", duration |-> d]
             /\ pc' = "wait"
             /\ UNCHANGED <<err, exitCode>>
    /\ UNCHANGED <<prog, RICH_AVAILABLE, elapsed, result, data, out, viewerVars>>

\* the classifier exits before subprocess.run's deadline, leaving its output in
\* the pipes and its exit status to be collected
ChildExits ==
    /\ pc = "wait" /\ child.state = "running"
    /\ child.duration <= Timeout
    /\ \E r \in Results : result' = r
    /\ child' = [child EXCEPT !.state = "zombie"]
    /\ elapsed' = child.duration
    /\ UNCHANGED <<prog, pc, RICH_AVAILABLE, data, out, err, exitCode, viewerVars>>

\* main from the return of subprocess.run (which has waited for the child) on
RichOutcome(res, richAvailable) ==
    LET r == colorize_file(res)
        rd == IF richAvailable = "True" THEN render_rich(r.value) ELSE render_ansi(r.value)
    IN  IF ~r.ok THEN [data |-> NoData, out |-> <<>>, err |-> <<ErrorLine(r.msg)>>, code |-> 1]
        ELSE IF rd.exc # ""
             THEN [data |-> r.value, out |-> rd.out, err |-> <<ErrorLine(rd.msg)>>, code |-> 1]
        ELSE [data |-> r.value, out |-> rd.out, err |-> <<>>, code |-> 0]

rich_main_return ==
    /\ prog = "rich" /\ pc = "wait" /\ child.state = "zombie"
    /\ child' = [child EXCEPT !.state = "reaped"]
    /\ LET o == RichOutcome(result, RICH_AVAILABLE)
       IN  /\ data' = o.data
           /\ out' = o.out
           /\ err' = err \o o.err
           /\ exitCode' = o.code
    /\ pc' = "done"
    /\ UNCHANGED <<prog, RICH_AVAILABLE, elapsed, result, viewerVars>>

TimeoutMessage == <<"Command '['mix', 'colorize', ...]' timed out after 30 seconds">>

\* subprocess.run reaches its deadline: it kills the child, waits for it and
\* raises TimeoutExpired, which main's `except Exception` reports
rich_main_timeout ==
    /\ prog = "rich" /\ pc = "wait" /\ child.state = "running"
    /\ child.duration > Timeout
    /\ elapsed' = Timeout
    /\ child' = [child EXCEPT !.state = "reaped"]
    /\ err' = Append(err, ErrorLine(TimeoutMessage))
    /\ exitCode' = 1
    /\ pc' = "done"
    /\ UNCHANGED <<prog, RICH_AVAILABLE, result, data, out, viewerVars>>

(* ------------------------------------------------- colorhymn_viewer.py steps *)
Note(msg, severity) == [msg |-> msg, severity |-> severity]

\* load_file from the return of subprocess.run on: what it leaves in self.data,
\* the info bar and the log container, and the notifications it raises
Loaded(d, bar, rws, notes) == [data |-> d, bar |-> bar, rows |-> rws, notes |-> notes]

load_file(res) ==
    IF res.returncode # 0
    THEN Loaded(NoData, <<>>, <<>>, <<Note(<<"Error: ", res.stderr>>, "error")>>)
    ELSE LET json_start == find_brace(res.stdout)
             r == json_loads(SubSeq(res.stdout, json_start, Len(res.stdout)))
             v == render_log(r.value)
         IN  IF json_start = 0
             THEN Loaded(NoData, <<>>, <<>>,
                         <<Note(<<"No JSON output from colorhymn">>, "error")>>)
             ELSE IF ~r.ok
             THEN Loaded(NoData, <<>>, <<>>,
                         <<Note(<<"JSON parse error: ">> \o r.msg, "error")>>)
             ELSE IF v.exc # ""
             THEN Loaded(r.value, v.bar, v.rows, <<Note(ErrorLine(v.msg), "error")>>)
             ELSE Loaded(r.value, v.bar, v.rows, <<>>)

\* main, App.run, on_mount and load_file up to the call of subprocess.run
viewer_main ==
    /\ prog = "viewer" /\ pc = "main"
    /\ \E argc \in {1, 2}, mixInstalled \in BOOLEAN, d \in Durations, h \in 1 .. MaxViewport :
        IF argc < 2
        THEN /\ err' = Append(err, Usage("colorhymn_viewer.py"))
             /\ exitCode' = 1 /\ pc' = "done"
             /\ UNCHANGED <<child, viewport_height, notifications>>
        ELSE IF ~mixInstalled
        THEN /\ notifications' = Append(notifications,
                    Note(ErrorLine(<<"[Errno 2] No such file or directory: 'mix'">>), "error"))
             /\ viewport_height' = h
             /\ pc' = "ready"
             /\ UNCHANGED <<child, err, exitCode>>
        ELSE /\ child' = [state |-> "running", duration |-> d]
             /\ viewport_height' = h
             /\ pc' = "wait"
             /\ UNCHANGED <<err, exitCode, notifications>>
    /\ UNCHANGED <<prog, RICH_AVAILABLE, elapsed, result, data, out, info_bar, rows, scroll_y>>

load_file_return ==
    /\ prog = "viewer" /\ pc = "wait" /\ child.state = "zombie"
    /\ child' = [child EXCEPT !.state = "reaped"]
    /\ LET l == load_file(result)
       IN  /\ data' = l.data
           /\ info_bar' = l.bar
           /\ rows' = l.rows
           /\ notifications' = notifications \o l.notes
    /\ pc' = "ready"
    /\ UNCHANGED <<prog, RICH_AVAILABLE, elapsed, result, out, err, exitCode, scroll_y,
                   viewport_height>>

\* except subprocess.TimeoutExpired, after subprocess.run killed and reaped the child
load_file_timeout ==
    /\ prog = "viewer" /\ pc = "wait" /\ child.state = "running"
    /\ child.duration > Timeout
    /\ elapsed' = Timeout
    /\ child' = [child EXCEPT !.state = "reaped"]
    /\ notifications' = Append(notifications, Note(<<"Colorhymn timed out">>, "error"))
    /\ pc' = "ready"
    /\ UNCHANGED <<prog, RICH_AVAILABLE, result, data, out, err, exitCode, info_bar, rows,
                   scroll_y, viewport_height>>

(* Scrolling of the Textual container the actions delegate to: the scroll     *)
(* target is clamped to [0, max_scroll_y], the content being one row per      *)
(* mounted Static.                                                            *)
max_scroll_y == Max(0, Len(rows) - viewport_height)

scroll_to(y) == Min(Max(y, 0), max_scroll_y)

scroll_home == scroll_to(0)
scroll_end == scroll_to(max_scroll_y)
scroll_relative(y) == scroll_to(scroll_y + y)
scroll_page_down == scroll_to(scroll_y + viewport_height)
scroll_page_up == scroll_to(scroll_y - viewport_height)

scrollFrame == <<prog, pc, RICH_AVAILABLE, child, elapsed, result, data, out, err, exitCode,
                 info_bar, rows, viewport_height, notifications>>

action_scroll_top ==
    /\ prog = "viewer" /\ pc = "ready"
    /\ scroll_y' = scroll_home
    /\ UNCHANGED scrollFrame

action_scroll_bottom ==
    /\ prog = "viewer" /\ pc = "ready"
    /\ scroll_y' = scroll_end
    /\ UNCHANGED scrollFrame

\* line-down bound to the upward scroll
action_scroll_down_reversed ==
    /\ prog = "viewer" /\ pc = "ready"
    /\ scroll_y' = scroll_relative(-1)
    /\ UNCHANGED scrollFrame

action_scroll_down ==
    /\ prog = "viewer" /\ pc = "ready"
    /\ scroll_y' = scroll_relative(1)
    /\ UNCHANGED scrollFrame

action_scroll_up ==
    /\ prog = "viewer" /\ pc = "ready"
    /\ scroll_y' = scroll_relative(-1)
    /\ UNCHANGED scrollFrame

action_page_down ==
    /\ prog = "viewer" /\ pc = "ready"
    /\ scroll_y' = scroll_page_down
    /\ UNCHANGED scrollFrame

action_page_up ==
    /\ prog = "viewer" /\ pc = "ready"
    /\ scroll_y' = scroll_page_up
    /\ UNCHANGED scrollFrame

action_search ==
    /\ prog = "viewer" /\ pc = "ready"
    /\ Len(notifications) < MaxNotes
    /\ notifications' = Append(notifications, Note(<<"Search not yet implemented">>, "warning"))
    /\ UNCHANGED <<prog, pc, RICH_AVAILABLE, child, elapsed, result, data, out, err, exitCode,
                   info_bar, rows, scroll_y, viewport_height>>

\* the "quit" binding: App.action_quit ends the application
action_quit ==
    /\ prog = "viewer" /\ pc = "ready"
    /\ pc' = "done"
    /\ exitCode' = 0
    /\ UNCHANGED <<prog, RICH_AVAILABLE, child, elapsed, result, data, out, err,
                   viewerVars>>

Next ==
    \/ ImportRich
    \/ DefineFunctions
    \/ rich_main
    \/ ChildExits
    \/ rich_main_return
    \/ rich_main_timeout
    \/ viewer_main
    \/ load_file_return
    \/ load_file_timeout
    \/ action_scroll_top
    \/ action_scroll_bottom
    \/ action_scroll_down
    \/ action_scroll_up
    \/ action_page_down
    \/ action_page_up
    \/ action_search
    \/ action_quit

Spec == Init /\ [][Next]_vars

(* ------------------------------------------------- reading what was rendered *)
\* the visible text of a styled Text: its spans' texts, in order
RECURSIVE SpanText(_)
SpanText(spans) ==
    IF spans = <<>> THEN "" ELSE Head(spans).text \o SpanText(Tail(spans))

\* the visible text of a raw ANSI line: its pieces with the escapes removed
RECURSIVE AnsiText(_)
AnsiText(pieces) ==
    IF pieces = <<>> THEN ""
    ELSE (IF Head(pieces).esc THEN "" ELSE Head(pieces).txt) \o AnsiText(Tail(pieces))

\* logical colours: the terminal default, a named colour, or an RGB triple
LDefault == [kind |-> "default", name |-> "", rgb |-> <<>>]
LNamed(n) == [kind |-> "named", name |-> n, rgb |-> <<>>]
LRgb(r, g, b) == [kind |-> "rgb", name |-> "", rgb |-> <<r, g, b>>]

Run(text, color) == [text |-> text, color |-> color]

\* the colour a style string denotes
Logical(color) ==
    CASE color.kind = "named" -> LNamed(color.name)
      [] color.kind = "hex" ->
            LRgb(HexByte(color.spec, 2), HexByte(color.spec, 4), HexByte(color.spec, 6))
      [] OTHER -> LDefault

RichRuns(spans) == [k \in 1 .. Len(spans) |-> Run(spans[k].text, Logical(spans[k].color))]

\* the colour in effect after an SGR escape: 0 resets, 38;2;r;g;b sets the
\* foreground, anything else (2 = faint) leaves the colour alone
AfterSgr(sgr, color) ==
    IF sgr = <<0>> THEN LDefault
    ELSE IF Len(sgr) = 5 /\ sgr[1] = 38 /\ sgr[2] = 2 THEN LRgb(sgr[3], sgr[4], sgr[5])
    ELSE color

RECURSIVE AnsiRunsFrom(_, _)
AnsiRunsFrom(pieces, color) ==
    IF pieces = <<>> THEN <<>>
    ELSE IF Head(pieces).esc
         THEN AnsiRunsFrom(Tail(pieces), AfterSgr(Head(pieces).sgr, color))
    ELSE <<Run(Head(pieces).txt, color)>> \o AnsiRunsFrom(Tail(pieces), color)

AnsiRuns(pieces) == AnsiRunsFrom(pieces, LDefault)

\* runs with empty ones dropped and neighbours of one colour joined
RECURSIVE Merged(_)
Merged(runs) ==
    IF runs = <<>> THEN <<>>
    ELSE LET rest == Merged(Tail(runs))
             r == Head(runs)
         IN  IF r.text = "" THEN rest
             ELSE IF rest # <<>> /\ Head(rest).color = r.color
                  THEN <<Run(r.text \o Head(rest).text, r.color)>> \o Tail(rest)
             ELSE <<r>> \o rest

IsDocument(d) == d.hasMeta /\ d.hasLines

\* subprocess.run has returned or raised, and its caller has handled that
FetchReturned == child.state # "none" /\ pc \in {"ready", "done"}

\* a message that carries the text s
Carries(msg, s) == s = "" \/ \E i \in 1 .. Len(msg) : msg[i] = s

\* a failure report shown to the user that carries s: a line on the error
\* stream (static) or an error notification (viewer)
FailureReportCarries(s) ==
    IF prog = "rich"
    THEN exitCode = 1 /\ \E i \in 1 .. Len(err) : Carries(err[i], s)
    ELSE \E i \in 1 .. Len(notifications) :
            notifications[i].severity = "error" /\ Carries(notifications[i].msg, s)

NothingRendered == out = <<>> /\ info_bar = <<>> /\ rows = <<>>

(* ------------------------------------------------------------------ claims *)

\* C1: whenever the classifier exited with a non-zero status, fetch failed with
\* an error carrying the standard-error text, whatever standard output held,
\* in the static and in the interactive client: nothing was rendered.
C1_NonZeroExitFails ==
    (FetchReturned /\ result.returncode # 0) =>
        (NothingRendered /\ ~IsDocument(data) /\ FailureReportCarries(result.stderr))

\* C2: without the styled library the static renderer still starts, writes
\* exactly one diagnostic line, never fails on the missing backend, and after a
\* successful fetch renders the whole document with the raw backend and exits 0.
C2_FallbackNeverFails ==
    (prog = "rich" /\ RICH_AVAILABLE = "False") =>
        /\ Cardinality({i \in 1 .. Len(err) :
                err[i] = <<"Rich not installed. Using raw ANSI output.">>}) = 1
        /\ pc # "crashed"
        /\ (pc = "done" /\ FetchReturned /\ colorize_file(result).ok
              /\ IsDocument(colorize_file(result).value))
            => (exitCode = 0 /\ out = render_ansi(data).out /\ Len(out) = 2 + Len(data.lines))

\* a header has been rendered from the response's metadata
HeaderRendered ==
    /\ data.hasMeta
    /\ IF prog = "rich" THEN pc = "done" /\ Len(out) >= 1 ELSE info_bar # <<>>

\* the logical colours the rendered header gives the temperature text and the
\* mood text (the raw header is a single run, which holds both)
HeaderFieldColors ==
    IF prog = "viewer"
    THEN <<Logical(info_bar[4].color), Logical(info_bar[6].color)>>
    ELSE IF RICH_AVAILABLE = "True"
    THEN <<Logical(out[1][4].color), Logical(out[1][6].color)>>
    ELSE <<AnsiRuns(out[1])[1].color, AnsiRuns(out[1])[1].color>>

\* C3: in every renderer the temperature text is shown in the colour the shared
\* mapping gives the temperature and the mood text in the colour it gives the
\* mood (so the mood's colour depends on the mood alone); a name outside the
\* seven semantic names gets the default, white.
C3_SharedResolver ==
    HeaderRendered =>
        /\ HeaderFieldColors[1] = LNamed(temp_colors(data.metadata.temperature))
        /\ HeaderFieldColors[2] = LNamed(temp_colors(data.metadata.mood))
        /\ \A n \in {data.metadata.temperature, data.metadata.mood} :
                n \notin SemanticNames => temp_colors(n) = "white"

\* C4: for every Document the styled and the raw backend write the same lines,
\* each the same sequence of visible text runs in the same logical colours,
\* header included.
C4_BackendsAgree ==
    (prog = "rich" /\ IsDocument(data)) =>
        LET styled == render_rich(data).out
            raw == render_ansi(data).out
        IN  /\ Len(styled) = Len(raw)
            /\ \A i \in 1 .. Len(styled) :
                    Merged(RichRuns(styled[i])) = Merged(AnsiRuns(raw[i]))

\* the response subprocess.run delivered is a complete Document
ValidResponse ==
    /\ child.state = "reaped" /\ child.duration <= Timeout
    /\ result.returncode = 0
    /\ colorize_file(result).ok
    /\ IsDocument(colorize_file(result).value)

\* C6: the viewer never crashes; it ends only by the quit action (or the usage
\* error before the application starts), and every fetch failure (classifier
\* missing, non-zero exit, timeout, no JSON, unparseable JSON, JSON lacking
\* the expected fields) has produced a user-visible notification.
C6_FailuresNotifiedViewerRuns ==
    prog = "viewer" =>
        /\ pc # "crashed"
        /\ (pc = "done" => exitCode = 0 \/ (exitCode = 1 /\ child.state = "none"))
        /\ (pc = "ready" /\ ~ValidResponse) =>
                \E i \in 1 .. Len(notifications) : notifications[i].severity = "error"

\* C7: the client parses the JSON object that starts at the first '{' of
\* standard output, ignoring what precedes it; when standard output holds no
\* '{', the failure reported to the user carries the raw standard-error text,
\* in the static and in the interactive client.
C7_FirstBraceOrStderr ==
    (FetchReturned /\ child.duration <= Timeout /\ result.returncode = 0) =>
        LET json_start == find_brace(result.stdout)
        IN  IF json_start = 0
            THEN NothingRendered /\ FailureReportCarries(result.stderr)
            ELSE result.stdout[json_start].kind = "json" /\ json_start = Len(result.stdout)
                    => data = result.stdout[json_start].value

\* a Document is on screen in the running viewer
LoadedDocument == prog = "viewer" /\ pc = "ready" /\ IsDocument(data)

\* max(0, line_count - viewport_height), line_count being the number of lines
\* of the loaded Document
MaxOffset == Max(0, Len(data.lines) - viewport_height)

Clamped(y) == IF y < 0 THEN 0 ELSE IF y > MaxOffset THEN MaxOffset ELSE y

\* C5: on a loaded Document every step leaves scroll_offset within
\* [0, max(0, line_count - viewport_height)]; scroll-to-top sets it to 0,
\* scroll-to-bottom to the maximum offset, line-down and line-up move it by
\* exactly 1 and page-down and page-up by one viewport height, each clamped to
\* that range.
C5_NavigationClamped ==
    [][LoadedDocument =>
        /\ scroll_y' \in 0 .. MaxOffset
        /\ action_scroll_top => scroll_y' = 0
        /\ action_scroll_bottom => scroll_y' = MaxOffset
        /\ action_scroll_down => scroll_y' = Clamped(scroll_y + 1)
        /\ action_scroll_up => scroll_y' = Clamped(scroll_y - 1)
        /\ action_page_down => scroll_y' = Clamped(scroll_y + viewport_height)
        /\ action_page_up => scroll_y' = Clamped(scroll_y - viewport_height)]_vars

\* navigation has moved the view of a Document two or more rows down, to the
\* maximum offset
C5_Witness == LoadedDocument /\ MaxOffset >= 2 /\ scroll_y = MaxOffset

\* a renderer has rendered a whole Document
DocumentRendered ==
    /\ IsDocument(data)
    /\ IF prog = "rich" THEN pc = "done" /\ exitCode = 0 ELSE pc \in {"ready", "done"}

StyledOutput == prog = "viewer" \/ RICH_AVAILABLE = "True"

\* the rows after the header, as rendered
RenderedRows == IF prog = "rich" THEN SubSeq(out, 3, Len(out)) ELSE rows

\* the text pieces of a row, escapes left out
RowTexts(row) ==
    IF StyledOutput THEN [k \in 1 .. Len(row) |-> row[k].text]
    ELSE LET shown == SelectSeq(row, LAMBDA p : ~p.esc)
         IN  [k \in 1 .. Len(shown) |-> shown[k].txt]

Blanks == {"", " ", "  ", "   ", "    ", "     "}

\* the text s is the decimal number n, with blanks around it
ShowsNumber(s, n) == \E pad \in Blanks, sp \in {"", " "} : s = pad \o Dec(n) \o sp

\* the texts of a row after its number prefix (the raw backend writes the
\* blank after the number as a piece of its own)
RowTokenTexts(row) ==
    LET texts == RowTexts(row)
    IN  IF StyledOutput THEN Tail(texts) ELSE Tail(Tail(texts))

TokenTexts(line_tokens) == [k \in 1 .. Len(line_tokens) |-> line_tokens[k][2]]

\* the header precedes the rows: the banner and a blank line (static), the
\* info bar (viewer)
HeaderFirst ==
    LET meta == data.metadata
        fields == "| " \o Dec(meta.line_count) \o " lines | temp: " \o meta.temperature
                  \o " | mood: " \o meta.mood
    IN  IF prog = "viewer" THEN SpanText(info_bar) = " " \o meta.filename \o " " \o fields
        ELSE /\ Len(out) >= 2
             /\ out[2] = <<>>
             /\ (IF StyledOutput THEN SpanText(out[1]) ELSE AnsiText(out[1]))
                    = "=== " \o meta.filename \o " " \o fields \o " ==="

\* C8: whatever metadata.line_count declares, each renderer emits the header
\* first and then exactly one row per entry of the lines array, blank entries
\* included, in array order, numbered 1..N for the N actual entries.
C8_OneRowPerEntry ==
    DocumentRendered =>
        /\ HeaderFirst
        /\ Len(RenderedRows) = Len(data.lines)
        /\ \A i \in 1 .. Len(data.lines) :
                /\ ShowsNumber(RowTexts(RenderedRows[i])[1], i)
                /\ RowTokenTexts(RenderedRows[i]) = TokenTexts(data.lines[i])

\* the viewer shows a response whose line_count disclaims its three or more
\* entries, one of them blank
C8_Witness ==
    /\ prog = "viewer" /\ DocumentRendered
    /\ data.metadata.line_count # Len(data.lines)
    /\ Len(rows) >= 3
    /\ \E i \in 1 .. Len(data.lines) : data.lines[i] = <<>>

\* C9: once fetch has returned no classifier subprocess is running or left
\* unreaped; and when the subprocess would have run longer than 30 seconds,
\* fetch failed with the timeout and delivered no part of a Document.
C9_TimeoutReapsAndFails ==
    FetchReturned =>
        /\ child.state = "reaped"
        /\ child.duration > 30 =>
              /\ NothingRendered /\ ~IsDocument(data)
              /\ IF prog = "rich"
                 THEN exitCode = 1 /\ err[Len(err)] = ErrorLine(TimeoutMessage)
                 ELSE notifications # <<>>
                      /\ notifications[1] = Note(<<"Colorhymn timed out">>, "error")

\* fetch has returned from a classifier that needed more than 30 seconds
C9_Witness == FetchReturned /\ child.duration > 30 /\ child.state = "reaped"

\* the number right-aligned in five characters
NumberPrefix(i) ==
    LET digits == Dec(i)
    IN  CASE Len(digits) = 1 -> "    " \o digits
          [] Len(digits) = 2 -> "   " \o digits
          [] Len(digits) = 3 -> "  " \o digits
          [] Len(digits) = 4 -> " " \o digits
          [] OTHER -> digits

RECURSIVE Concatenated(_)
Concatenated(texts) ==
    IF texts = <<>> THEN "" ELSE Head(texts) \o Concatenated(Tail(texts))

VisibleRow(row) == IF StyledOutput THEN SpanText(row) ELSE AnsiText(row)

\* C10: in the styled static output, the raw static output and the viewer, the
\* visible text of row i is the line number right-aligned in 5 characters, one
\* space, then the line's token texts concatenated in order with no
\* separators; a line without tokens shows the number prefix alone.
C10_VisibleRowText ==
    DocumentRendered =>
        /\ Len(RenderedRows) = Len(data.lines)
        /\ \A i \in 1 .. Len(data.lines) :
                VisibleRow(RenderedRows[i])
                    = NumberPrefix(i) \o " " \o Concatenated(TokenTexts(data.lines[i]))

\* the raw backend has written a blank line followed by a line with tokens
C10_Witness ==
    /\ prog = "rich" /\ RICH_AVAILABLE = "False" /\ DocumentRendered
    /\ Len(data.lines) >= 2
    /\ data.lines[1] = <<>> /\ data.lines[2] # <<>>
    /\ Len(out) = 2 + Len(data.lines)

====
